---- MODULE Spec2Model ----
(***************************************************************************)
(* audio_parser: the RIFF/WAVE chunk scanner (parse_riff, parse_chunks,    *)
(* parse_list), the fmt decoder (Fmt::from_chunk) and the two sessions     *)
(* built on them (AudioFile::new_wav / read_exact and Wav::new / is_end /  *)
(* next / next_n), modelled over concrete byte sequences.                  *)
(***************************************************************************)
EXTENDS Integers, Sequences, FiniteSets, TLC

VARIABLES
    api,        \* entry point under execution
    build,      \* width of usize and overflow checking of the build
    layout,     \* ghost: the chunk layout the file content was built from
    file,       \* content of the device file, a sequence of bytes
    offset,     \* File: current offset of the file handle
    buf,        \* `bytes`: the HEADER_SIZE array of the open operation
    window,     \* `bytes` of the scanner: the slice it was handed
    scanner,    \* scanner running or last run
    index,      \* scanner: `index`
    chunks,     \* scanner: `chunks`
    pc,         \* position: "start", "loop", "open", "done"
    result,     \* "none", "ok", "err", "abort"
    err,        \* error value of an "err" result
    sess,       \* the session (AudioFile or Wav) after a successful open
    log,        \* ghost: per chunk recorded, where its header was read
    consumed,   \* ghost: bytes the session's read calls took from the file
    stream,     \* ghost: the buffer lengths read_exact was called with and
                \*        the bytes it filled, in call order
    other,      \* ghost: how the other open ended on the same file content
    calls,      \* ghost: number of read calls made on the session
    last        \* ghost: outcome of the last session call

vars == <<api, build, layout, file, offset, buf, window, scanner, index,
          chunks, pc, result, err, sess, log, consumed, stream, other, calls,
          last>>

----------------------------------------------------------------------------
(* Bytes, tags *)

Byte == 0..255

TagRIFF == <<82, 73, 70, 70>>
TagFmt  == <<102, 109, 116, 32>>
TagData == <<100, 97, 116, 97>>
TagWAVE == <<87, 65, 86, 69>>
TagLIST == <<76, 73, 83, 84>>
TagINFO == <<73, 78, 70, 79>>
TagRIFX == <<82, 73, 70, 88>>
TagWAVV == <<87, 65, 86, 86>>
TagRndm == <<114, 110, 100, 109>>
TagINAM == <<73, 78, 65, 77>>

Slice(s, a, b) == SubSeq(s, a + 1, b)    \* s[a..b] of the source, 0-based

Min(a, b) == IF a < b THEN a ELSE b

----------------------------------------------------------------------------
(* usize and u32 values.  A value is kept as two 16-bit halves so that     *)
(* every u32 size field and every usize sum can be written down exactly.   *)

Half == 256 * 256

Num(n) == [hi |-> n \div Half, lo |-> n % Half]

NumPlus(a, b) ==
    LET lo == a.lo + b.lo
    IN  [hi |-> a.hi + b.hi + (lo \div Half), lo |-> lo % Half]

NumLess(a, b) == a.hi < b.hi \/ (a.hi = b.hi /\ a.lo < b.lo)

NumLeq(a, b) == a = b \/ NumLess(a, b)

\* a - b for a >= b
NumMinus(a, b) ==
    IF a.lo >= b.lo THEN [hi |-> a.hi - b.hi, lo |-> a.lo - b.lo]
    ELSE [hi |-> a.hi - b.hi - 1, lo |-> a.lo + Half - b.lo]

IsSmall(a) == a.hi = 0

Two32 == [hi |-> Half, lo |-> 0]

Builds == {"usize64", "usize32_checked", "usize32_wrapping"}

\* the sum does not fit the usize of build b
AddOverflows(b, a, c) == b # "usize64" /\ NumPlus(a, c).hi >= Half

\* usize addition as the build computes it when it does not panic
usize_add(b, a, c) ==
    LET s == NumPlus(a, c)
    IN  IF b = "usize64" THEN s ELSE [hi |-> s.hi % Half, lo |-> s.lo]

SubOverflows(b, a, c) == NumLess(a, c)

\* usize subtraction as the build computes it when it does not panic
usize_sub(b, a, c) ==
    IF NumLeq(c, a) THEN NumMinus(a, c) ELSE NumMinus(NumPlus(a, Two32), c)

Checked(b) == b # "usize32_wrapping"

u16_from_le_bytes(b) == b[1] + 256 * b[2]

u32_from_le_bytes(b) == [hi |-> b[3] + 256 * b[4], lo |-> b[1] + 256 * b[2]]

u32_to_le_bytes(n) ==
    <<n.lo % 256, n.lo \div 256, n.hi % 256, n.hi \div 256>>

----------------------------------------------------------------------------
(* ChunkTag, Chunk *)

ChunkTag_from_bytes(b) ==
    IF b = TagRIFF THEN [kind |-> "Riff", raw |-> <<>>]
    ELSE IF b = TagFmt THEN [kind |-> "Fmt", raw |-> <<>>]
    ELSE IF b = TagData THEN [kind |-> "Data", raw |-> <<>>]
    ELSE IF b = TagWAVE THEN [kind |-> "Wave", raw |-> <<>>]
    ELSE [kind |-> "Unknown", raw |-> b]

ChunkTag_to_bytes(t) ==
    CASE t.kind = "Riff" -> TagRIFF
      [] t.kind = "Fmt"  -> TagFmt
      [] t.kind = "Data" -> TagData
      [] t.kind = "Wave" -> TagWAVE
      [] t.kind = "List" -> TagLIST
      [] t.kind = "Info" -> TagINFO
      [] OTHER           -> t.raw

Tag(k) == [kind |-> k, raw |-> <<>>]

NoChunk == [id |-> Tag("None"), start |-> Num(0), end |-> Num(0)]

\* Chunk::from_bytes: "panic" for a slice index out of range or, in a
\* checked build, an overflowing `20 + size as usize`
Chunk_from_bytes(b, bytes) ==
    IF Len(bytes) < 8 THEN [st |-> "panic", chunk |-> NoChunk]
    ELSE
      LET id   == ChunkTag_from_bytes(Slice(bytes, 0, 4))
          size == u32_from_le_bytes(Slice(bytes, 4, 8))
          start == Num(8 + 12)
      IN  IF Checked(b) /\ AddOverflows(b, Num(20), size)
          THEN [st |-> "panic", chunk |-> NoChunk]
          ELSE [st |-> "ok",
                chunk |-> [id |-> id, start |-> start,
                           end |-> usize_add(b, Num(20), size)]]

----------------------------------------------------------------------------
(* Constants of the program *)

HEADER_SIZE == 44

MAX_CHUNKS_wav == 5       \* wav::chunk::MAX_CHUNKS, capacity of parse_riff / parse_list

MAX_CHUNKS == 20          \* wav::MAX_CHUNKS, capacity of parse_chunks

FMT_END == 36             \* "The end of fmt", the fallback seek of new_wav

Capacity(sc) == IF sc = "parse_chunks" THEN MAX_CHUNKS ELSE MAX_CHUNKS_wav

----------------------------------------------------------------------------
(* The scanners: parse_riff, parse_chunks and parse_list share one shape:  *)
(* a header check, then a loop over the chunks of the window.              *)

\* the statements before the loop; `st` is "ok" (index = 12 follows),
\* "err" with the error returned, or "panic"
ScanHeader(b, sc, bytes) ==
    LET first == Chunk_from_bytes(b, bytes)
    IN  IF first.st = "panic" THEN [st |-> "panic", err |-> "none"]
        ELSE IF sc = "parse_list" /\ first.chunk.id # Tag("List")
            THEN [st |-> "err", err |-> "NoListTagFound"]
        ELSE IF sc # "parse_list" /\ first.chunk.id # Tag("Riff")
            THEN [st |-> "err", err |-> "NoRiffChunkFound"]
        ELSE IF Len(bytes) < 12 THEN [st |-> "panic", err |-> "none"]
        ELSE IF sc = "parse_list"
                 /\ Slice(bytes, 8, 12) # ChunkTag_to_bytes(Tag("Info"))
            THEN [st |-> "err", err |-> "NoInfoTagFound"]
        ELSE IF sc # "parse_list"
                 /\ Slice(bytes, 8, 12) # ChunkTag_to_bytes(Tag("Wave"))
            THEN [st |-> "err", err |-> "NoWaveTagFound"]
        ELSE [st |-> "ok", err |-> "none"]

\* `(chunk_length & 1) * 8`
padding_byte(chunk_length) == (chunk_length.lo % 2) * 8

\* the cursor after one iteration: index + (8 + chunk_length + padding_byte),
\* "panic" when a checked build overflows on the way
Advance(b, idx, chunk_length) ==
    LET pad == Num(padding_byte(chunk_length))
        s1  == usize_add(b, Num(8), chunk_length)
        s2  == usize_add(b, s1, pad)
    IN  IF Checked(b) /\ (AddOverflows(b, Num(8), chunk_length)
                          \/ AddOverflows(b, s1, pad)
                          \/ AddOverflows(b, idx, s2))
        THEN [st |-> "panic", index |-> idx]
        ELSE [st |-> "ok", index |-> usize_add(b, idx, s2)]

\* one iteration of `while index < bytes.len()`, entered with index < len
ScanIter(b, sc, bytes, idx, chs) ==
    LET got == Chunk_from_bytes(b, Slice(bytes, idx.lo, Len(bytes)))
        c   == got.chunk
        bad == [st |-> "panic", index |-> idx, chunks |-> chs, chunk |-> NoChunk]
    IN  IF got.st = "panic" THEN bad
        ELSE IF Checked(b) /\ SubOverflows(b, c.end, c.start) THEN bad
        ELSE
          LET chunk_length == usize_sub(b, c.end, c.start)
              adv == Advance(b, idx, chunk_length)
          IN  IF adv.st = "panic" THEN bad
              ELSE IF Len(chs) >= Capacity(sc) THEN bad   \* push(..).unwrap()
              ELSE [st |-> "ok", index |-> adv.index,
                    chunks |-> Append(chs, c), chunk |-> c]

----------------------------------------------------------------------------
(* Fmt::from_chunk *)

NoFmt == [audio_format |-> "none", sample_rate |-> Num(0), num_channels |-> 0,
          bit_depth |-> 0]

\* Fmt::from_chunk reading bits-per-sample from the block-align field
Fmt_from_chunk_block_align(bytes) ==
    IF Len(bytes) < 2 THEN [st |-> "panic", err |-> "none", arg |-> 0, fmt |-> NoFmt]
    ELSE
      LET format == u16_from_le_bytes(Slice(bytes, 0, 2))
      IN  IF format # 1
          THEN [st |-> "err", err |-> "UnsupportedFormat", arg |-> format, fmt |-> NoFmt]
          ELSE IF Len(bytes) < 16
          THEN [st |-> "panic", err |-> "none", arg |-> 0, fmt |-> NoFmt]
          ELSE [st |-> "ok", err |-> "none", arg |-> 0,
                fmt |-> [audio_format |-> "UncompressedPcm",
                         num_channels |-> u16_from_le_bytes(Slice(bytes, 2, 4)),
                         sample_rate |-> u32_from_le_bytes(Slice(bytes, 4, 8)),
                         bit_depth |-> u16_from_le_bytes(Slice(bytes, 12, 14))]]

Fmt_from_chunk(bytes) ==
    IF Len(bytes) < 2 THEN [st |-> "panic", err |-> "none", arg |-> 0, fmt |-> NoFmt]
    ELSE
      LET format == u16_from_le_bytes(Slice(bytes, 0, 2))
      IN  IF format # 1
          THEN [st |-> "err", err |-> "UnsupportedFormat", arg |-> format, fmt |-> NoFmt]
          ELSE IF Len(bytes) < 16
          THEN [st |-> "panic", err |-> "none", arg |-> 0, fmt |-> NoFmt]
          ELSE [st |-> "ok", err |-> "none", arg |-> 0,
                fmt |-> [audio_format |-> "UncompressedPcm",
                         num_channels |-> u16_from_le_bytes(Slice(bytes, 2, 4)),
                         sample_rate |-> u32_from_le_bytes(Slice(bytes, 4, 8)),
                         bit_depth |-> u16_from_le_bytes(Slice(bytes, 14, 16))]]

\* `.iter().find(|c| c.id == tag)`: position of the first match, 0 if none
Find(chs, k) ==
    IF \E i \in 1..Len(chs) : chs[i].id = Tag(k)
    THEN CHOOSE i \in 1..Len(chs) :
            chs[i].id = Tag(k) /\ \A j \in 1..(i - 1) : chs[j].id # Tag(k)
    ELSE 0

\* `.filter(|c| c.id != Data && c.id != Fmt).collect()`
Ancillary(chs) ==
    SelectSeq(chs, LAMBDA c : c.id # Tag("Data") /\ c.id # Tag("Fmt"))

\* `&bytes[start..end]` of the HEADER_SIZE array; panics when out of range
SliceOk(bytes, c) ==
    NumLeq(c.start, c.end) /\ NumLeq(c.end, Num(Len(bytes)))

\* the fmt step of both opens: find the Fmt chunk, decode its content
LocateFmt(bytes, chs) ==
    LET i == Find(chs, "Fmt")
    IN  IF i = 0 THEN [st |-> "err", err |-> "NoFmtChunkFound", arg |-> 0, fmt |-> NoFmt]
        ELSE IF ~SliceOk(bytes, chs[i])
        THEN [st |-> "panic", err |-> "none", arg |-> 0, fmt |-> NoFmt]
        ELSE Fmt_from_chunk(Slice(bytes, chs[i].start.lo, chs[i].end.lo))

----------------------------------------------------------------------------
(* The device file (embedded_sdmmc File) *)

\* File::read into a buffer of n bytes: the bytes delivered
FileRead(f, off, n) == Slice(f, off, Min(Len(f), off + n))

\* File::seek_from_start succeeds up to the length of the file
SeekOk(f, off) == off <= Len(f)

\* the HEADER_SIZE array after a read that delivered `got` into its front
Overwrite(bytes, got) ==
    [i \in 1..Len(bytes) |-> IF i <= Len(got) THEN got[i] ELSE bytes[i]]

Zeros(n) == [i \in 1..n |-> 0]

----------------------------------------------------------------------------
(* File contents.  A layout lists the chunks a file is built from; the     *)
(* file is the concatenation of their bytes, possibly cut short.           *)

MaxData == 4      \* largest declared size of an ordinary data chunk
MaxExtra == 20    \* largest number of empty chunks appended after fmt and data
MaxNum == 2       \* largest NUM of next_n
MaxBuf == 3       \* largest caller buffer of read_exact
MaxCalls == 4     \* largest number of read calls made on one session

\* sample bytes: the data of tests::should_parse_chunks, then a 24-bit
\* sample with the sign bit set
Samples == <<0, 0, 0, 0, 36, 23, 30, 243, 0, 0, 128>>

Body(n) == [i \in 1..n |-> Samples[((i - 1) % Len(Samples)) + 1]]

Pad(n) == IF n % 2 = 1 THEN <<0>> ELSE <<>>

\* a chunk whose declared size is the length of its content
ChunkOf(tag, content) ==
    [tag |-> tag, size |-> Num(Len(content)),
     body |-> content \o Pad(Len(content)), inner |-> <<>>]

\* content of a PCM fmt chunk: format, 2 channels, 22050 Hz, byte rate,
\* block align, bits per sample; cut or zero-extended to `size` bytes
FmtContent(format, depth, size) ==
    LET full == <<format % 256, format \div 256, 2, 0, 34, 86, 0, 0,
                  136, 88, 1, 0, 4, 0, depth % 256, depth \div 256>>
    IN  [i \in 1..size |-> IF i <= 16 THEN full[i] ELSE 0]

FmtC(format, depth, size) == ChunkOf(TagFmt, FmtContent(format, depth, size))

DataC(n) == ChunkOf(TagData, Body(n))

JunkC(n) == ChunkOf(TagRndm, [i \in 1..n |-> 170])

\* a chunk that declares `size` but carries only `content`
LyingC(tag, size, content) ==
    [tag |-> tag, size |-> size, body |-> content, inner |-> <<>>]

RECURSIVE Flatten(_)
Flatten(cs) ==
    IF cs = <<>> THEN <<>>
    ELSE Head(cs).tag \o u32_to_le_bytes(Head(cs).size) \o Head(cs).body
         \o Flatten(Tail(cs))

\* a LIST container of sub-type `form` holding the chunks `subs`; `inner`
\* keeps the sub-type and the tags of the chunks held
ListC(form, subs) ==
    [ChunkOf(TagLIST, form \o Flatten(subs)) EXCEPT
        !.inner = <<form>> \o [i \in 1..Len(subs) |-> subs[i].tag]]

Huge == [hi |-> 65535, lo |-> 65535]         \* 0xFFFF_FFFF

Edge == [hi |-> 65535, lo |-> 65516]         \* 0xFFFF_FFEC = 2^32 - 20

Stuck == [hi |-> 65535, lo |-> 65528]        \* 0xFFFF_FFF8 = 2^32 - 8

F16 == FmtC(1, 16, 16)

Repeat(c, n) == [i \in 1..n |-> c]

ChunkLists ==
    \* fmt then data: every bit depth, bad format tags, bad fmt sizes
       { <<f, DataC(n)>> :
            f \in { FmtC(1, 8, 16), FmtC(1, 16, 16), FmtC(1, 24, 16),
                    FmtC(1, 32, 16), FmtC(3, 16, 16), FmtC(1, 16, 14),
                    FmtC(3, 16, 14), FmtC(1, 16, 18), FmtC(1, 16, 40),
                    FmtC(1, 16, 0) },
            n \in 0..MaxData }
    \* a chunk between fmt and data, of even and of odd size
  \cup { <<F16, JunkC(j), DataC(n)>> : j \in {0, 1, 3, 4}, n \in {2, 3} }
    \* chunks after data
  \cup { <<f, DataC(n), JunkC(j)>> :
            f \in {FmtC(1, 8, 16), F16}, n \in {2, 3}, j \in {0, 1} }
    \* other orders, missing and repeated chunks
  \cup { <<>>, <<F16>>, <<DataC(2)>>, <<DataC(2), F16>>,
         <<JunkC(4), F16, DataC(2)>>, <<JunkC(16), F16, DataC(2)>>,
         <<F16, DataC(2), DataC(4)>>, <<JunkC(2)>> }
    \* many chunks
  \cup { <<F16, DataC(0)>> \o Repeat(JunkC(0), k) : k \in 1..MaxExtra }
  \cup { <<F16, DataC(1)>> \o Repeat(JunkC(1), k) : k \in 1..3 }
    \* a LIST container where data is expected
  \cup { <<F16, ListC(form, subs)>> :
            form \in {TagINFO, TagWAVE},
            subs \in { <<>>, <<ChunkOf(TagINAM, <<104, 105>>)>>,
                       <<DataC(2)>>,
                       <<ChunkOf(TagINAM, <<104, 105>>), DataC(4)>> } }
  \cup { <<F16, ListC(TagINFO, <<ChunkOf(TagINAM, <<104, 105>>)>>), DataC(2)>> }
    \* declared sizes near the top of the u32 range
  \cup { <<F16, LyingC(TagData, sz, Body(4))>> : sz \in {Huge, Edge} }
  \cup { <<F16, LyingC(TagRndm, sz, Body(4)), DataC(2)>> :
            sz \in {Huge, Stuck, [hi |-> 65535, lo |-> 65500]} }
  \cup { <<F16, LyingC(TagData, Num(100), Body(4))>> }
    \* data first, then chunks of unrecognized tags, fmt last
  \cup { <<DataC(0), ChunkOf(<<1, 0, 2, 0>>, <<>>), F16>>,
         <<DataC(0), ChunkOf(<<1, 0, 2, 0>>, <<>>), JunkC(0), F16>> }

Content(root, rsize, form, cs) ==
    root \o u32_to_le_bytes(rsize) \o form \o Flatten(cs)

Whole(root, form, cs) ==
    [root |-> root, rsize |-> Num(4 + Len(Flatten(cs))), form |-> form,
     chunks |-> cs, cut |-> 12 + Len(Flatten(cs))]

Canonical == <<F16, DataC(4)>>

Layouts ==
       { Whole(TagRIFF, TagWAVE, cs) : cs \in ChunkLists }
    \* wrong root tag, wrong form tag
  \cup { Whole(root, form, cs) :
            root \in {TagRIFF, TagRIFX, TagWAVE}, form \in {TagWAVE, TagWAVV},
            cs \in { Canonical, <<>>,
                     <<F16, JunkC(4), ChunkOf(<<139, 173, 240, 13>>, Body(8)),
                       DataC(4)>> } }
    \* a root size field near the top of the u32 range
  \cup { [Whole(root, TagWAVE, Canonical) EXCEPT !.rsize = sz] :
            root \in {TagRIFF, TagRIFX}, sz \in {Huge, Edge} }
    \* files cut short
  \cup { [Whole(TagRIFF, TagWAVE, Canonical) EXCEPT !.cut = n] :
            n \in {0, 3, 4, 8, 11, 12, 16, 19, 20, 22, 30, 36, 40, 43, 44, 45} }
  \cup { [Whole(TagRIFF, TagWAVE, <<F16, ListC(TagINFO, <<>>)>>) EXCEPT !.cut = n] :
            n \in {22, 36, 40, 44} }

FileOf(l) ==
    Slice(Content(l.root, l.rsize, l.form, l.chunks), 0, l.cut)

Apis == {"parse_riff", "parse_chunks", "new_wav", "Wav_new"}

NoSess == [read |-> 0, data |-> NoChunk, fmt |-> NoFmt, chunks |-> <<>>,
           read0 |-> 0]

NoOutcome ==
    [result |-> "none", err |-> "none", fmt |-> NoFmt, data |-> NoChunk,
     read |-> 0, offset |-> 0]

NoStream == [sizes |-> <<>>, bytes |-> <<>>]

NoCall == [op |-> "none", st |-> "none", err |-> "none", arg |-> 0,
           took |-> 0, value |-> 0, bytes |-> <<>>, before |-> 0,
           ended |-> FALSE]

Init ==
    /\ api \in Apis
    /\ build \in Builds
    /\ layout \in Layouts
    /\ file = FileOf(layout)
    /\ offset = 0
    /\ buf = Zeros(HEADER_SIZE)
    /\ window = <<>>
    /\ scanner = "none"
    /\ index = Num(0)
    /\ chunks = <<>>
    /\ pc = "start"
    /\ result = "none"
    /\ err = "none"
    /\ sess = NoSess
    /\ log = <<>>
    /\ consumed = 0
    /\ stream = NoStream
    /\ other = NoOutcome
    /\ calls = 0
    /\ last = NoCall

----------------------------------------------------------------------------
(* Outcomes of the running call *)

\* the call panics: assert!, unwrap() of an Err, slice index, overflow
Abort ==
    /\ pc' = "done"
    /\ result' = "abort"
    /\ err' = "none"

\* the call returns Err(e)
Fail(e) ==
    /\ pc' = "done"
    /\ result' = "err"
    /\ err' = e

\* a scanner is entered with the slice `bytes`: its statements up to the loop
BeginScan(sc, bytes) ==
    LET h == ScanHeader(build, sc, bytes)
    IN  /\ scanner' = sc
        /\ window' = bytes
        /\ index' = Num(12)
        /\ chunks' = <<>>
        /\ log' = <<>>
        /\ CASE h.st = "panic" -> Abort
             [] h.st = "err"   -> Fail(h.err)
             [] OTHER          -> /\ pc' = "loop"
                                  /\ result' = "none"
                                  /\ err' = "none"

ScanDone == ~NumLess(index, Num(Len(window)))

----------------------------------------------------------------------------
(* parse_riff / parse_chunks called on a byte slice, as the tests do *)

CallScanner ==
    /\ pc = "start"
    /\ api \in {"parse_riff", "parse_chunks"}
    /\ BeginScan(api, file)
    /\ UNCHANGED <<api, build, layout, file, offset, buf, sess, consumed,
                   stream, other, calls, last>>

\* one iteration of the scanner loop (parse_riff, parse_chunks, parse_list)
ScanStep ==
    /\ pc = "loop"
    /\ ~ScanDone
    /\ LET r == ScanIter(build, scanner, window, index, chunks)
       IN  IF r.st = "panic"
           THEN /\ Abort
                /\ UNCHANGED <<index, chunks, log>>
           ELSE /\ index' = r.index
                /\ chunks' = r.chunks
                /\ log' = Append(log,
                      [c |-> index.lo,
                       size |-> u32_from_le_bytes(
                                   Slice(window, index.lo + 4, index.lo + 8)),
                       next |-> r.index])
                /\ UNCHANGED <<pc, result, err>>
    /\ UNCHANGED <<api, build, layout, file, offset, buf, window, scanner,
                   sess, consumed, stream, other, calls, last>>

\* the loop of a directly called scanner ends: Ok(chunks)
ScanReturn ==
    /\ pc = "loop"
    /\ ScanDone
    /\ api \in {"parse_riff", "parse_chunks"}
    /\ pc' = "done"
    /\ result' = "ok"
    /\ UNCHANGED <<api, build, layout, file, offset, buf, window, scanner,
                   index, chunks, err, sess, log, consumed,
                   stream, other, calls, last>>

----------------------------------------------------------------------------
(* AudioFile::new_wav *)

\* read the header array, enter parse_riff on the bytes read
new_wav_read ==
    /\ pc = "start"
    /\ api = "new_wav"
    /\ LET got == FileRead(file, offset, HEADER_SIZE)
       IN  /\ offset' = offset + Len(got)
           /\ buf' = Overwrite(buf, got)
           /\ BeginScan("parse_riff", got)
    /\ UNCHANGED <<api, build, layout, file, sess, consumed,
                   stream, other, calls, last>>

\* seek to the data start and build the AudioFile
new_wav_finish(fmt, data) ==
    IF ~IsSmall(data.start) \/ ~SeekOk(file, data.start.lo)
    THEN Abort /\ UNCHANGED <<offset, sess>>
    ELSE /\ offset' = data.start.lo
         /\ sess' = [read |-> data.start.lo, data |-> data, fmt |-> fmt,
                     chunks |-> <<>>, read0 |-> data.start.lo]
         /\ pc' = "open"
         /\ result' = "ok"
         /\ err' = "none"

\* parse_riff or parse_list has returned Ok(chunks): the rest of new_wav
new_wav_located ==
    /\ pc = "loop"
    /\ ScanDone
    /\ api = "new_wav"
    /\ IF scanner = "parse_riff"
       THEN LET f == LocateFmt(buf, chunks)
                d == Find(chunks, "Data")
            IN  CASE f.st = "panic" ->
                       Abort /\ UNCHANGED <<offset, buf, window, scanner,
                                            index, chunks, sess, log>>
                  [] f.st = "err" ->
                       Fail(f.err) /\ UNCHANGED <<offset, buf, window, scanner,
                                                  index, chunks, sess, log>>
                  [] f.st = "ok" /\ d # 0 ->
                       /\ new_wav_finish(f.fmt, chunks[d])
                       /\ UNCHANGED <<buf, window, scanner, index, chunks, log>>
                  [] f.st = "ok" /\ d = 0 /\ ~SeekOk(file, FMT_END) ->
                       Abort /\ UNCHANGED <<offset, buf, window, scanner,
                                            index, chunks, sess, log>>
                  [] OTHER ->
                       \* "Another chunk is where data was expected to be"
                       LET got == FileRead(file, FMT_END, HEADER_SIZE)
                       IN  /\ offset' = FMT_END + Len(got)
                           /\ buf' = Overwrite(buf, got)
                           /\ sess' = [sess EXCEPT !.fmt = f.fmt]
                           /\ BeginScan("parse_list", got)
       ELSE LET info == Find(chunks, "Info")
                d    == Find(chunks, "Data")
            IN  /\ IF info = 0
                   THEN Fail("NoInfoTagFound") /\ UNCHANGED <<offset, sess>>
                   ELSE IF d = 0
                   THEN Fail("NoDataChunkFound") /\ UNCHANGED <<offset, sess>>
                   ELSE new_wav_finish(sess.fmt, chunks[d])
                /\ UNCHANGED <<buf, window, scanner, index, chunks, log>>
    /\ UNCHANGED <<api, build, layout, file, consumed, stream, other, calls,
                   last>>

\* read_exact leaving the file cursor where it was
read_exact_no_advance(n) ==
    /\ pc = "open"
    /\ calls < MaxCalls
    /\ calls' = calls + 1
    /\ api = "new_wav"
    /\ LET got == FileRead(file, offset, n)
       IN  /\ offset' = offset
           /\ sess' = [sess EXCEPT !.read = @ + Len(got)]
           /\ consumed' = consumed + Len(got)
           /\ stream' = [sizes |-> Append(stream.sizes, n),
                         bytes |-> stream.bytes \o got]
           /\ last' = [NoCall EXCEPT !.op = "read_exact", !.st = "ok",
                          !.arg = n, !.took = Len(got), !.value = Len(got),
                          !.bytes = got, !.before = sess.read]
    /\ UNCHANGED <<api, build, layout, file, buf, window, scanner, index,
                   chunks, pc, result, err, log, other>>

\* AudioFile::read_exact with a caller buffer of n bytes
read_exact(n) ==
    /\ pc = "open"
    /\ calls < MaxCalls
    /\ calls' = calls + 1
    /\ api = "new_wav"
    /\ LET got == FileRead(file, offset, n)
       IN  /\ offset' = offset + Len(got)
           /\ sess' = [sess EXCEPT !.read = @ + Len(got)]
           /\ consumed' = consumed + Len(got)
           /\ stream' = [sizes |-> Append(stream.sizes, n),
                         bytes |-> stream.bytes \o got]
           /\ last' = [NoCall EXCEPT !.op = "read_exact", !.st = "ok",
                          !.arg = n, !.took = Len(got), !.value = Len(got),
                          !.bytes = got, !.before = sess.read]
    /\ UNCHANGED <<api, build, layout, file, buf, window, scanner, index,
                   chunks, pc, result, err, log, other>>

----------------------------------------------------------------------------
(* Wav::new, is_end, next, next_n *)

\* read the header array, assert it was filled, enter parse_chunks on it
Wav_new_read ==
    /\ pc = "start"
    /\ api = "Wav_new"
    /\ LET got == FileRead(file, offset, HEADER_SIZE)
       IN  /\ offset' = offset + Len(got)
           /\ buf' = Overwrite(buf, got)
           /\ IF Len(got) # HEADER_SIZE        \* assert!(bytes.len() == read)
              THEN /\ Abort
                   /\ UNCHANGED <<window, scanner, index, chunks, log>>
              ELSE BeginScan("parse_chunks", Overwrite(buf, got))
    /\ UNCHANGED <<api, build, layout, file, sess, consumed,
                   stream, other, calls, last>>

\* parse_chunks has returned Ok(chunks): the rest of Wav::new
Wav_new_located ==
    /\ pc = "loop"
    /\ ScanDone
    /\ api = "Wav_new"
    /\ LET f == LocateFmt(buf, chunks)
           d == Find(chunks, "Data")
       IN  CASE f.st = "panic" -> Abort /\ UNCHANGED <<offset, sess>>
             [] f.st = "err" -> Fail(f.err) /\ UNCHANGED <<offset, sess>>
             [] f.st = "ok" /\ d = 0 ->
                  Fail("NoDataChunkFound") /\ UNCHANGED <<offset, sess>>
             [] f.st = "ok" /\ d # 0 /\ ~SeekOk(file, HEADER_SIZE + 1) ->
                  Abort /\ UNCHANGED <<offset, sess>>
             [] OTHER ->
                  /\ offset' = HEADER_SIZE + 1
                  /\ sess' = [read |-> HEADER_SIZE, data |-> chunks[d],
                              fmt |-> f.fmt, chunks |-> Ancillary(chunks),
                              read0 |-> HEADER_SIZE]
                  /\ pc' = "open"
                  /\ result' = "ok"
                  /\ err' = "none"
    /\ UNCHANGED <<api, build, layout, file, buf, window, scanner, index,
                   chunks, log, consumed, stream, other, calls, last>>

\* Wav::is_end
is_end == offset = Len(file)

i16_from_le_bytes(b) ==
    b[1] + 256 * (IF b[2] >= 128 THEN b[2] - 256 ELSE b[2])

i32_from_le_bytes(b) ==
    b[1] + 256 * b[2] + 65536 * b[3]
      + 16777216 * (IF b[4] >= 128 THEN b[4] - 256 ELSE b[4])

\* `next` without the sign extension of a 24-bit sample
Decode_no_sign(depth, b) ==
    CASE depth = 8  -> b[1]
      [] depth = 16 -> i16_from_le_bytes(<<b[1], b[2]>>)
      [] depth = 24 -> i32_from_le_bytes(<<b[1], b[2], b[3], 0>>)

\* the sample `next` builds from the bytes it read
Decode(depth, b) ==
    CASE depth = 8  -> b[1]
      [] depth = 16 -> i16_from_le_bytes(<<b[1], b[2]>>)
      [] depth = 24 ->
           LET sign == b[3] \div 128
               sign_byte == IF sign = 1 THEN 255 ELSE 0
           IN  i32_from_le_bytes(<<b[1], b[2], b[3], sign_byte>>)

\* Wav::next
next ==
    /\ pc = "open"
    /\ calls < MaxCalls
    /\ calls' = calls + 1
    /\ api = "Wav_new"
    /\ LET depth == sess.fmt.bit_depth
           k     == depth \div 8
           call  == [NoCall EXCEPT !.op = "next", !.before = sess.read,
                                   !.ended = is_end]
       IN  IF is_end                           \* assert!(!self.is_end())
           THEN /\ Abort
                /\ last' = [call EXCEPT !.st = "panic"]
                /\ UNCHANGED <<offset, sess, consumed>>
           ELSE IF depth \in {8, 16, 24}
           THEN LET got == FileRead(file, offset, k)
                IN  /\ offset' = offset + Len(got)
                    /\ sess' = [sess EXCEPT !.read = @ + 1]
                    /\ consumed' = consumed + Len(got)
                    /\ IF Len(got) # k         \* assert!(read == k)
                       THEN /\ Abort
                            /\ last' = [call EXCEPT !.st = "panic",
                                                    !.took = Len(got)]
                       ELSE /\ last' = [call EXCEPT !.st = "ok", !.took = k,
                                           !.bytes = got,
                                           !.value = Decode(depth, got)]
                            /\ UNCHANGED <<pc, result, err>>
           ELSE /\ sess' = [sess EXCEPT !.read = @ + 1]
                /\ last' = [call EXCEPT !.st = "err",
                               !.err = "UnsupportedBitDepth", !.arg = depth]
                /\ UNCHANGED <<offset, consumed, pc, result, err>>
    /\ UNCHANGED <<api, build, layout, file, buf, window, scanner, index,
                   chunks, log, stream, other>>

\* Wav::next_n::<NUM>
next_n(NUM) ==
    /\ pc = "open"
    /\ calls < MaxCalls
    /\ calls' = calls + 1
    /\ api = "Wav_new"
    /\ LET depth == sess.fmt.bit_depth
           call  == [NoCall EXCEPT !.op = "next_n", !.before = sess.read,
                                   !.ended = is_end, !.arg = NUM]
       IN  IF is_end                           \* assert!(!self.is_end())
           THEN /\ Abort
                /\ last' = [call EXCEPT !.st = "panic"]
                /\ UNCHANGED <<offset, sess, consumed>>
           ELSE IF depth = 8
           THEN LET got == FileRead(file, offset, NUM)
                IN  /\ offset' = offset + Len(got)
                    /\ sess' = [sess EXCEPT !.read = @ + NUM]
                    /\ consumed' = consumed + Len(got)
                    /\ last' = [call EXCEPT !.st = "ok", !.took = Len(got),
                                   !.bytes = Overwrite(Zeros(NUM), got)]
                    /\ UNCHANGED <<pc, result, err>>
           ELSE /\ sess' = [sess EXCEPT !.read =
                              @ + (CASE depth = 16 -> NUM * 2
                                     [] depth = 24 -> NUM * 3
                                     [] OTHER -> 0)]
                /\ last' = [call EXCEPT !.st = "err",
                               !.err = "UnsupportedBitDepth", !.arg = depth]
                /\ UNCHANGED <<offset, consumed, pc, result, err>>
    /\ UNCHANGED <<api, build, layout, file, buf, window, scanner, index,
                   chunks, log, stream, other>>

\* AudioFile::destroy, Wav::destroy: the session ends, the file is returned
destroy ==
    /\ pc = "open"
    /\ pc' = "done"
    /\ last' = [NoCall EXCEPT !.op = "destroy", !.st = "ok",
                              !.before = sess.read, !.ended = is_end]
    /\ UNCHANGED <<api, build, layout, file, offset, buf, window, scanner,
                   index, chunks, result, err, sess, log, consumed,
                   stream, other, calls>>

----------------------------------------------------------------------------

Next ==
    \/ CallScanner
    \/ ScanStep
    \/ ScanReturn
    \/ new_wav_read
    \/ new_wav_located
    \/ \E n \in 1..MaxBuf : read_exact(n)
    \/ Wav_new_read
    \/ Wav_new_located
    \/ next
    \/ \E NUM \in 1..MaxNum : next_n(NUM)
    \/ destroy

Spec == Init /\ [][Next]_vars

----------------------------------------------------------------------------
(* The decoders on chosen bytes: Fmt::from_chunk called on fmt content     *)
(* slices, and Wav::next on files whose data holds one chosen sample.      *)

FmtSlices ==
    { <<f % 256, f \div 256, ch, 0>> \o rate \o mid
        \o <<d % 256, d \div 256>> \o tail :
        f \in {0, 1, 2, 3, 257, 65534}, ch \in {1, 2},
        rate \in {<<34, 86, 0, 0>>, <<128, 187, 0, 0>>, <<255, 255, 255, 255>>},
        mid \in {<<136, 88, 1, 0, 4, 0>>, <<0, 0, 0, 0, 0, 0>>,
                 <<255, 255, 255, 255, 24, 0>>},
        d \in {8, 16, 24, 32, 272}, tail \in {<<>>, <<0, 0>>} }
  \cup { <<f, 0, 2, 0, 34, 86, 0, 0, 136, 88, 1, 0, 4, 0>> : f \in {1, 3} }
  \cup { <<>>, <<1>> }

SampleBytes == {0, 1, 23, 36, 127, 128, 255}

\* fmt of depth d, then a data chunk: one byte, then the sample bs
SampleLayout(d, bs) ==
    Whole(TagRIFF, TagWAVE, <<FmtC(1, d, 16), ChunkOf(TagData, <<0>> \o bs)>>)

SampleLayouts ==
    { SampleLayout(d, bs) : d \in {8}, bs \in [1..1 -> SampleBytes] }
  \cup { SampleLayout(d, bs) : d \in {16}, bs \in [1..2 -> SampleBytes] }
  \cup { SampleLayout(d, bs) : d \in {24}, bs \in [1..3 -> SampleBytes] }

InitDecoders ==
    /\ \/ /\ api = "Fmt_from_chunk"
          /\ build = "usize64"
          /\ file \in FmtSlices
          /\ layout = Whole(TagRIFF, TagWAVE,
                            <<LyingC(TagFmt, Num(Len(file)), file)>>)
       \/ /\ api = "Wav_new"
          /\ build \in Builds
          /\ layout \in SampleLayouts
          /\ file = FileOf(layout)
    /\ offset = 0
    /\ buf = Zeros(HEADER_SIZE)
    /\ window = <<>>
    /\ scanner = "none"
    /\ index = Num(0)
    /\ chunks = <<>>
    /\ pc = "start"
    /\ result = "none"
    /\ err = "none"
    /\ sess = NoSess
    /\ log = <<>>
    /\ consumed = 0
    /\ stream = NoStream
    /\ other = NoOutcome
    /\ calls = 0
    /\ last = NoCall

\* Fmt::from_chunk called on the slice `file`
call_from_chunk ==
    /\ pc = "start"
    /\ api = "Fmt_from_chunk"
    /\ LET r == Fmt_from_chunk(file)
       IN  /\ pc' = "done"
           /\ result' = (IF r.st = "panic" THEN "abort" ELSE r.st)
           /\ err' = r.err
           /\ sess' = [sess EXCEPT !.fmt = r.fmt]
           /\ last' = [NoCall EXCEPT !.op = "from_chunk", !.st = r.st,
                                     !.err = r.err, !.arg = r.arg]
    /\ UNCHANGED <<api, build, layout, file, offset, buf, window, scanner,
                   index, chunks, log, consumed, stream, other, calls>>

NextDecoders ==
    \/ call_from_chunk
    \/ Wav_new_read
    \/ ScanStep
    \/ Wav_new_located
    \/ next

SpecDecoders == InitDecoders /\ [][NextDecoders]_vars

----------------------------------------------------------------------------
(* Both opens on one file content: Wav::new first, then AudioFile::new_wav *)
(* on a fresh handle of the same file.                                     *)

\* an open has returned or aborted, and no session call was made since
OpenEnded == (pc = "open" /\ calls = 0) \/ (pc = "done" /\ last = NoCall)

\* what an open that has ended gave its caller, and where it left the cursor
Outcome ==
    IF result = "ok"
    THEN [result |-> "ok", err |-> "none", fmt |-> sess.fmt,
          data |-> sess.data, read |-> sess.read, offset |-> offset]
    ELSE [NoOutcome EXCEPT !.result = result, !.err = err]

InitBoth ==
    /\ Init
    /\ api = "Wav_new"

\* Wav::new has ended: the same content is handed to AudioFile::new_wav
reopen ==
    /\ api = "Wav_new"
    /\ OpenEnded
    /\ other = NoOutcome
    /\ other' = Outcome
    /\ api' = "new_wav"
    /\ offset' = 0
    /\ buf' = Zeros(HEADER_SIZE)
    /\ window' = <<>>
    /\ scanner' = "none"
    /\ index' = Num(0)
    /\ chunks' = <<>>
    /\ pc' = "start"
    /\ result' = "none"
    /\ err' = "none"
    /\ sess' = NoSess
    /\ log' = <<>>
    /\ UNCHANGED <<build, layout, file, consumed, stream, calls, last>>

NextBoth ==
    \/ Wav_new_read
    \/ ScanStep
    \/ Wav_new_located
    \/ reopen
    \/ new_wav_read
    \/ new_wav_located

SpecBoth == InitBoth /\ [][NextBoth]_vars

----------------------------------------------------------------------------
(* Properties *)

Scanners == {"parse_riff", "parse_chunks"}

Opens == {"new_wav", "Wav_new"}

\* the layout is a well-formed RIFF/WAVE stream: RIFF and WAVE, every chunk
\* complete with its pad byte, one fmt chunk, one data chunk
WellFormed(l) ==
    /\ l.root = TagRIFF
    /\ l.form = TagWAVE
    /\ l.rsize = Num(4 + Len(Flatten(l.chunks)))
    /\ l.cut = 12 + Len(Flatten(l.chunks))
    /\ \A i \in 1..Len(l.chunks) :
          /\ IsSmall(l.chunks[i].size)
          /\ Len(l.chunks[i].body)
                = l.chunks[i].size.lo + (l.chunks[i].size.lo % 2)
    /\ Cardinality({i \in 1..Len(l.chunks) : l.chunks[i].tag = TagFmt}) = 1
    /\ Cardinality({i \in 1..Len(l.chunks) : l.chunks[i].tag = TagData}) = 1

CountId(chs, k) == Cardinality({i \in 1..Len(chs) : chs[i].id = Tag(k)})

\* C1: on a well-formed RIFF/WAVE stream of N chunks, N within the list
\* capacity, the scanner returns exactly N descriptors in stream order,
\* exactly one tagged Fmt and exactly one tagged Data.
C1_ScannerReturnsEveryChunk ==
    (/\ api \in Scanners
     /\ pc = "done"
     /\ WellFormed(layout)
     /\ Len(layout.chunks) <= Capacity(api))
    => /\ result = "ok"
       /\ Len(chunks) = Len(layout.chunks)
       /\ \A i \in 1..Len(chunks) :
             chunks[i].id = ChunkTag_from_bytes(layout.chunks[i].tag)
       /\ CountId(chunks, "Fmt") = 1
       /\ CountId(chunks, "Data") = 1

\* the open operation has just returned a session
JustOpened == pc = "open" /\ calls = 0

DataAt == log[Find(chunks, "Data")]

\* C2: after every successful open the file cursor is at the offset of the
\* data chunk's header plus 8, the recorded data range is [that offset, that
\* offset + declared size), and the initial read-position is its start.
C2_OpenSeeksToDataStart ==
    JustOpened
    => /\ offset = DataAt.c + 8
       /\ sess.data.start = Num(DataAt.c + 8)
       /\ sess.data.end = NumPlus(Num(DataAt.c + 8), DataAt.size)
       /\ Num(sess.read) = sess.data.start

\* C3: every chunk recorded, read at window offset c with declared size s,
\* has start = c + 8 and end = c + 8 + s.
C3_ChunkRangeFollowsHeader ==
    \A i \in 1..Len(chunks) :
        /\ chunks[i].start = Num(log[i].c + 8)
        /\ chunks[i].end = NumPlus(Num(log[i].c + 8), log[i].size)

\* C4: every iteration of the scanner loop moves the cursor from c to
\* c + 8 + s + p, p = 1 for an odd declared size s and 0 for an even one.
C4_CursorAdvancesPastPadding ==
    \A i \in 1..Len(log) :
        log[i].next
          = NumPlus(Num(log[i].c + 8 + (log[i].size.lo % 2)), log[i].size)

\* a scanner for RIFF was handed a window of at least 12 bytes
RiffScanned == scanner \in Scanners /\ Len(window) >= 12

\* C5: on a window of at least 12 bytes the scanner fails with
\* NoRiffChunkFound when bytes 0..4 are not "RIFF", and with NoWaveTagFound
\* when they are but bytes 8..12 are not "WAVE".
C5_WrongRootOrFormTag ==
    RiffScanned
    => /\ Slice(window, 0, 4) # TagRIFF
            => result = "err" /\ err = "NoRiffChunkFound"
       /\ (Slice(window, 0, 4) = TagRIFF /\ Slice(window, 8, 12) # TagWAVE)
            => result = "err" /\ err = "NoWaveTagFound"

\* C6: a RIFF/WAVE window holding more chunks than the chunk list can store
\* makes the scanner return an error value; it does not abort.
C6_CapacityErrorReturned ==
    (/\ api \in Scanners
     /\ pc = "done"
     /\ WellFormed(layout)
     /\ Len(layout.chunks) > Capacity(api))
    => result = "err"

\* C7: open returns a session or an error value for every file content; it
\* never aborts.
C7_OpenNeverAborts ==
    (api \in Opens /\ calls = 0) => result # "abort"

\* C8: on a Wav session opened on a valid WAV file is_end is false while
\* fewer bytes were read than the data chunk declares and true exactly when
\* as many were read; a next call made when is_end holds is fatal.
C8_EndExactlyAtDataLength ==
    (api = "Wav_new" /\ WellFormed(layout))
    => /\ pc = "open" => (is_end <=> Num(consumed) = DataAt.size)
       /\ (last.op = "next" /\ last.ended) => last.st = "panic"

\* C9: the read-position minus its value at open is the number of bytes the
\* read calls of the session consumed from the file.
C9_ReadPositionCountsBytes ==
    (api \in Opens /\ calls > 0 /\ last.st # "panic")
    => sess.read - sess.read0 = consumed

\* the fallback of new_wav has run: parse_list was handed the window at 36
FellBack == api = "new_wav" /\ scanner = "parse_list" /\ pc \in {"open", "done"}

\* the chunk after fmt is a complete LIST container of sub-type INFO
ListInfoAt36 ==
    /\ Len(layout.chunks) = 2
    /\ layout.cut = 12 + Len(Flatten(layout.chunks))
    /\ layout.chunks[1] = F16
    /\ layout.chunks[2].tag = TagLIST
    /\ layout.chunks[2].inner # <<>>
    /\ layout.chunks[2].inner[1] = TagINFO

ListHoldsData == \E i \in 2..Len(layout.chunks[2].inner) :
                    layout.chunks[2].inner[i] = TagData

\* C10: when the header window has fmt but no data, open scans the window at
\* offset 36 as a LIST/INFO container: it succeeds when the container holds a
\* data chunk, fails with NoDataChunkFound when a valid container holds none,
\* with NoListTagFound only when the tag is not "LIST" and with
\* NoInfoTagFound only when the sub-type is not "INFO".
C10_FallbackScansList ==
    FellBack
    => /\ (result = "err" /\ err = "NoListTagFound")
            => Slice(window, 0, 4) # TagLIST
       /\ (result = "err" /\ err = "NoInfoTagFound")
            => Slice(window, 8, 12) # TagINFO
       /\ (ListInfoAt36 /\ ListHoldsData) => result = "ok"
       /\ (ListInfoAt36 /\ ~ListHoldsData)
            => result = "err" /\ err = "NoDataChunkFound"

\* Fmt::from_chunk has returned from a slice of at least 16 bytes
FromChunkDone == last.op = "from_chunk" /\ Len(file) >= 16

\* C11: on a fmt content slice of at least 16 bytes Fmt::from_chunk fails
\* with UnsupportedFormat(t) exactly when the little-endian u16 t at [0,2) is
\* not 1; otherwise it returns PCM with num_channels from [2,4), sample_rate
\* from [4,8) and bit_depth from [14,16), whatever bytes [8,14) hold.
C11_FmtFieldsDecoded ==
    FromChunkDone
    => LET t == file[1] + 256 * file[2]
       IN  IF t # 1
           THEN /\ last.st = "err"
                /\ last.err = "UnsupportedFormat"
                /\ last.arg = t
           ELSE /\ last.st = "ok"
                /\ sess.fmt.audio_format = "UncompressedPcm"
                /\ sess.fmt.num_channels = file[3] + 256 * file[4]
                /\ sess.fmt.sample_rate
                     = [hi |-> file[7] + 256 * file[8],
                        lo |-> file[5] + 256 * file[6]]
                /\ sess.fmt.bit_depth = file[15] + 256 * file[16]

\* a PCM slice of 16 bits per sample decoded, its bytes [8,14) being
\* FF FF FF FF 18 00
C11_Witness ==
    /\ FromChunkDone
    /\ last.st = "ok"
    /\ sess.fmt.bit_depth = 16
    /\ Slice(file, 8, 14) = <<255, 255, 255, 255, 24, 0>>

\* C12: next at bit depth 24 returns b0 + 256*b1 + 65536*b2, minus 2^24 when
\* bit 7 of b2 is set, a value in [-2^23, 2^23 - 1]; at 16 the signed 16-bit
\* little-endian value; at 8 the byte itself.
C12_SampleDecoded ==
    (last.op = "next" /\ last.st = "ok")
    => LET b == last.bytes
       IN  /\ Len(b) * 8 = sess.fmt.bit_depth
           /\ Len(b) = 1 => last.value = b[1]
           /\ Len(b) = 2
                => last.value = b[1] + 256 * b[2]
                                  - (IF b[2] >= 128 THEN 65536 ELSE 0)
           /\ Len(b) = 3
                => /\ last.value = b[1] + 256 * b[2] + 65536 * b[3]
                                     - (IF b[3] >= 128 THEN 16777216 ELSE 0)
                   /\ last.value >= -8388608
                   /\ last.value <= 8388607

\* next has decoded the bytes 00 00 80 at bit depth 24
C12_Witness ==
    /\ last.op = "next"
    /\ last.st = "ok"
    /\ last.bytes = <<0, 0, 128>>
    /\ last.value = -8388608

\* C13: a fixed-length fill (read_exact with a buffer of n bytes, next_n) that
\* returns to the caller as a success has taken all the bytes requested from
\* the device; a short device read is never a success.
C13_ShortFillFails ==
    (last.op \in {"read_exact", "next_n"} /\ last.st = "ok")
    => last.took = last.arg

\* the sum of a sequence of buffer lengths
RECURSIVE Total(_)
Total(sizes) ==
    IF sizes = <<>> THEN 0 ELSE Head(sizes) + Total(Tail(sizes))

\* C14: whatever the mix of buffer lengths, the bytes the read_exact calls of
\* a session returned, concatenated in call order, are the bytes one
\* sequential read of the total length returns from the position the session
\* had at open: none skipped, repeated or reordered.
C14_ReadsConcatenate ==
    (api = "new_wav" /\ pc = "open")
    => stream.bytes = FileRead(file, sess.read0, Total(stream.sizes))

\* three calls of lengths 1, 3 and 2 have returned six bytes
C14_Witness ==
    /\ api = "new_wav"
    /\ pc = "open"
    /\ stream.sizes = <<1, 3, 2>>
    /\ Len(stream.bytes) = 6

\* the 4 tag bytes of the i-th recorded chunk, as they stand in the window
TagBytesAt(i) == Slice(window, log[i].c, log[i].c + 4)

\* C15: after a successful open the session's ancillary list holds, in scan
\* order, exactly the scanned chunks whose tag is neither Fmt nor Data, and a
\* chunk of unrecognized tag was scanned as Unknown carrying its 4 tag bytes.
C15_AncillaryListKept ==
    JustOpened
    => /\ sess.chunks = Ancillary(chunks)
       /\ \A i \in 1..Len(chunks) :
             TagBytesAt(i) \notin {TagRIFF, TagWAVE, TagFmt, TagData,
                                   TagLIST, TagINFO}
             => chunks[i].id = [kind |-> "Unknown", raw |-> TagBytesAt(i)]

\* C16: Wav::new and AudioFile::new_wav run on the same file content end the
\* same way: both fail with the same error kind, or both succeed with the
\* same format fields, data range, initial read-position and file cursor.
C16_OpensAgree ==
    (api = "new_wav" /\ OpenEnded /\ other # NoOutcome)
    => Outcome = other

\* C17: once the RIFF+WAVE header is accepted, every iteration of the scanner
\* loop moves the cursor forward by at least 8, so the loop runs at most
\* ceil((length - 12) / 8) iterations, whatever the declared sizes.
C17_ScannerLoopBounded ==
    /\ \A i \in 1..Len(log) :
          NumLeq(NumPlus(Num(log[i].c), Num(8)), log[i].next)
    /\ Len(log) > 0 => Len(log) <= (Len(window) - 12 + 7) \div 8

====
